---- MODULE Spec2Model ----
(***************************************************************************)
(* Model of docker/scripts/generate_sbom.py and generate_vex.py: two       *)
(* command-line generators that build a fixed-shape document from a few    *)
(* string inputs and write it to an output path with open(path, 'w') and   *)
(* json.dump.  Several runs (processes) may target the same output path.   *)
(***************************************************************************)
EXTENDS Integers, Sequences, FiniteSets, TLC

\* ------------------------------------------------------------------ bounds
\* Latest clock value (seconds) a run can observe.
MaxTime == 2
\* Number of write(2) calls the buffered writer needs to flush one document.
NChunks == 2

\* The processes of the model; run 0 is whoever wrote the path earlier.
Runs == {1, 2}

\* ------------------------------------------------------------ Python values
NoneV == [t |-> "none"]

StrV(s) == [t |-> "str", s |-> s]

IntV(n) == [t |-> "int", n |-> n]

\* str(value)
Str(v) ==
  CASE v.t = "str" -> v.s
    [] v.t = "int" -> ToString(v.n)
    [] OTHER -> "None"

\* bool(value), as used by `x or default`
Truthy(v) ==
  CASE v.t = "str" -> v.s # ""
    [] v.t = "int" -> v.n # 0
    [] OTHER -> FALSE

\* x or y
Or(x, y) == IF Truthy(x) THEN x ELSE y

\* A dict is a sequence of [key, value] items in insertion order.
Item(k, v) == [key |-> k, value |-> v]

DictV(items) == [t |-> "dict", items |-> items]

RECURSIVE DictGet(_, _, _)
\* metadata.get(key, default)
DictGet(d, k, default) ==
  IF d = <<>> THEN default
  ELSE IF Head(d).key = k THEN Head(d).value
  ELSE DictGet(Tail(d), k, default)

\* datetime.utcnow().isoformat() + "Z"
IsoTimestamp(t) == "T" \o ToString(t) \o "Z"

\* str(uuid.uuid4()): the n-th value drawn, all distinct
Uuid4(n) == "uuid-" \o ToString(n)

\* ------------------------------------------------------------ argparse
\* variant of SbomDefaultBuildType: another default for --build-type
SbomDefaultBuildTypeGeneric == "generic"

SbomDefaultBuildType == "jenkins-kubernetes"

SbomDefaultSlsaLevel == "3"

VexDefaultVersion == "1.0.0"

VexDefaultAuthor == "Jenkins SLSA Pipeline"

\* A flag left out of the command line is NoneV; add_argument's default fills it.
WithDefault(flag, default) == IF flag = NoneV THEN StrV(default) ELSE flag

SbomParseArgs(fl) ==
  [build_id   |-> fl.build_id,
   build_type |-> WithDefault(fl.build_type, SbomDefaultBuildType),
   slsa_level |-> WithDefault(fl.slsa_level, SbomDefaultSlsaLevel)]

VexParseArgs(fl) ==
  [component |-> fl.component,
   version   |-> WithDefault(fl.version, VexDefaultVersion),
   author    |-> WithDefault(fl.author, VexDefaultAuthor)]

\* f"jenkins-{int(datetime.utcnow().timestamp())}"
SbomDefaultBuildId(t) == "jenkins-" \o ToString(t)

SbomMetadata(a, t) ==
  DictV(<< Item("build_type", a.build_type),
           Item("slsa_level", a.slsa_level),
           Item("build_id", Or(a.build_id, StrV(SbomDefaultBuildId(t)))) >>)

\* variant of VexMetadata: --version is not passed on
VexMetadataVersionDropped(a) ==
  DictV(<< Item("component", Or(a.component, StrV("jenkins-build"))),
           Item("version", StrV(VexDefaultVersion)),
           Item("author", a.author) >>)

VexMetadata(a) ==
  DictV(<< Item("component", Or(a.component, StrV("jenkins-build"))),
           Item("version", a.version),
           Item("author", a.author) >>)

\* ------------------------------------------------------------ builders
\* `if metadata is None: metadata = {}`; the items of the resulting dict
MetaOrEmpty(m) == IF m = NoneV THEN << >> ELSE m.items

RECURSIVE SbomPropertiesSkippingEmpty(_)
\* variant of SbomProperties: items with an empty value get no property
SbomPropertiesSkippingEmpty(d) ==
  IF d = <<>> THEN <<>>
  ELSE IF Head(d).value = NoneV \/ Head(d).value = StrV("")
  THEN SbomPropertiesSkippingEmpty(Tail(d))
  ELSE << [name |-> "slsa:" \o Head(d).key, value |-> Str(Head(d).value)] >>
         \o SbomPropertiesSkippingEmpty(Tail(d))

RECURSIVE SbomProperties(_)
\* the loop appending one property per metadata item
SbomProperties(d) ==
  IF d = <<>> THEN <<>>
  ELSE << [name |-> "slsa:" \o Head(d).key, value |-> Str(Head(d).value)] >>
         \o SbomProperties(Tail(d))

\* variant of BuildSbom: the document version counts the generations
BuildSbomCounted(m, u, t) ==
  [bomFormat    |-> "CycloneDX",
   specVersion  |-> "1.5",
   serialNumber |-> "urn:uuid:" \o Uuid4(u),
   version      |-> u + 1,
   metadata     |-> [timestamp  |-> IsoTimestamp(t),
                     tools      |-> << [vendor  |-> "Jenkins SLSA Pipeline",
                                        name    |-> "SBOM Generator",
                                        version |-> "1.0.0"] >>,
                     properties |-> SbomProperties(MetaOrEmpty(m))],
   components   |-> << >>]

BuildSbom(m, u, t) ==
  [bomFormat    |-> "CycloneDX",
   specVersion  |-> "1.5",
   serialNumber |-> "urn:uuid:" \o Uuid4(u),
   version      |-> 1,
   metadata     |-> [timestamp  |-> IsoTimestamp(t),
                     tools      |-> << [vendor  |-> "Jenkins SLSA Pipeline",
                                        name    |-> "SBOM Generator",
                                        version |-> "1.0.0"] >>,
                     properties |-> SbomProperties(MetaOrEmpty(m))],
   components   |-> << >>]

\* variant of VexSampleStatement: the justification is left blank
VexSampleStatementUnjustified(m) ==
  [vulnerability |-> [name        |-> "CVE-PLACEHOLDER",
                      description |-> "Placeholder vulnerability for VEX template"],
   products      |-> << [component |-> DictGet(m, "component", StrV("unknown")),
                         version   |-> DictGet(m, "version", StrV("1.0.0"))] >>,
   status        |-> "not_affected",
   justification |-> ""]

VexSampleStatement(m) ==
  [vulnerability |-> [name        |-> "CVE-PLACEHOLDER",
                      description |-> "Placeholder vulnerability for VEX template"],
   products      |-> << [component |-> DictGet(m, "component", StrV("unknown")),
                         version   |-> DictGet(m, "version", StrV("1.0.0"))] >>,
   status        |-> "not_affected",
   justification |-> "component_not_present"]

BuildVex(m, u, t) ==
  [context    |-> "https://openvex.dev/ns/v0.2.0",
   id         |-> "https://openvex.dev/docs/" \o Uuid4(u),
   author     |-> DictGet(MetaOrEmpty(m), "author", StrV("Jenkins SLSA Pipeline")),
   timestamp  |-> IsoTimestamp(t),
   version    |-> 1,
   statements |-> << VexSampleStatement(MetaOrEmpty(m)) >>]

\* ------------------------------------------------------------ the file
\* The output path's content is a sequence of chunks; chunk i of run r's
\* serialized document is [owner |-> r, idx |-> i].  A hole is what a write
\* past the end of the file leaves before it.
Chunk(r, i) == [owner |-> r, idx |-> i]

Hole == [owner |-> -1, idx |-> 0]

\* json.dump's whole output for run r
Serialized(r) == [i \in 1..NChunks |-> Chunk(r, i)]

NoFile == [exists |-> FALSE, data |-> << >>]

FileOf(data) == [exists |-> TRUE, data |-> data]

\* open(path, 'w'): create or truncate
Truncated == FileOf(<< >>)

\* write(2) of one chunk at the descriptor's own offset
WriteAt(data, off, c) ==
  IF off < Len(data) THEN [data EXCEPT ![off + 1] = c]
  ELSE data \o [i \in 1..(off - Len(data)) |-> Hole] \o << c >>

\* ------------------------------------------------------------ inputs
\* Command lines and direct calls the runs are started with.  Runs that
\* overlap in time draw from a small set, a command that is run and then run
\* again from a larger one.
SbomFlags(bid, bt, lvl) == [build_id |-> bid, build_type |-> bt, slsa_level |-> lvl]

VexFlags(c, v, a) == [component |-> c, version |-> v, author |-> a]

SbomFlagSet(m) ==
  IF m = "concurrent"
  THEN {SbomFlags(NoneV, NoneV, NoneV), SbomFlags(StrV("rel-42"), NoneV, StrV("7"))}
  ELSE {SbomFlags(bid, bt, lvl) :
          bid \in {NoneV, StrV(""), StrV("rel-42")},
          bt  \in {NoneV, StrV("")},
          lvl \in {NoneV, StrV("3"), StrV("7")}}

VexFlagSet(m) ==
  IF m = "concurrent"
  THEN {VexFlags(NoneV, NoneV, NoneV)}
  ELSE {VexFlags(c, v, a) :
          c \in {NoneV, StrV(""), StrV("libfoo")},
          v \in {NoneV, StrV("2.1.0")},
          a \in {NoneV, StrV("sec-team")}}

SbomCallSet(m) ==
  IF m = "concurrent"
  THEN {NoneV}
  ELSE {NoneV, DictV(<< >>),
        DictV(<< Item("build_id", StrV("rel-42")), Item("note", StrV("")) >>),
        DictV(<< Item("slsa_level", IntV(3)), Item("commit", NoneV),
                 Item("build_type", StrV("generic")) >>)}

VexCallSet(m) ==
  IF m = "concurrent"
  THEN {NoneV}
  ELSE {NoneV, DictV(<< >>),
        DictV(<< Item("component", StrV("libfoo")) >>),
        DictV(<< Item("version", StrV("")), Item("author", StrV("sec-team")) >>)}

\* ------------------------------------------------------------ state
VARIABLES
  now,      \* the wall clock, in seconds
  uuids,    \* how many uuid4 values have been drawn
  fs,       \* the file at the output path
  prev,     \* the file at the output path before any run started
  mode,     \* "concurrent": runs overlap; "consecutive": a command run twice in a row
  pc,       \* each run's position
  kind,     \* "sbom" or "vex"
  entry,    \* "main": the command line; "call": the generator function called directly
  flags,    \* the command line's flags (NoneV where omitted)
  meta,     \* the metadata argument of the generator function
  doc,      \* the document built in memory
  fd,       \* the run's file object: "none", "open" or "closed"
  off,      \* the file object's offset, in chunks
  out,      \* standard output, a sequence of lines
  err,      \* the exception raised, "" when none
  exit      \* the process exit code: {} while none, else {code}

vars == << now, uuids, fs, prev, mode, pc, kind, entry, flags, meta, doc,
           fd, off, out, err, exit >>

Terminal == {"done", "crashed"}

InitWith(m) ==
  /\ now = 0
  /\ uuids = 0
  /\ prev \in {NoFile, FileOf(Serialized(0))}
  /\ fs = prev
  /\ mode = m
  /\ pc = [r \in Runs |-> "init"]
  /\ kind = [r \in Runs |-> "none"]
  /\ entry = [r \in Runs |-> "none"]
  /\ flags = [r \in Runs |-> NoneV]
  /\ meta = [r \in Runs |-> NoneV]
  /\ doc = [r \in Runs |-> NoneV]
  /\ fd = [r \in Runs |-> "none"]
  /\ off = [r \in Runs |-> 0]
  /\ out = [r \in Runs |-> << >>]
  /\ err = [r \in Runs |-> ""]
  /\ exit = [r \in Runs |-> {}]

\* A run may start when the caller's schedule lets it: at any time when runs
\* overlap; otherwise after the earlier run has ended, as the same command
\* (k, e, fl) or the same call (k, e, m) made again.
MayStart(r, k, e, fl, m) ==
  /\ pc[r] = "init"
  /\ mode = "consecutive" =>
       \A q \in Runs : q < r =>
          /\ pc[q] \in Terminal
          /\ kind[q] = k /\ entry[q] = e /\ flags[q] = fl
          /\ e = "call" => meta[q] = m

\* ------------------------------------------------------------ actions
Start(r, k, e, fl, m) ==
  /\ MayStart(r, k, e, fl, m)
  /\ kind' = [kind EXCEPT ![r] = k]
  /\ entry' = [entry EXCEPT ![r] = e]
  /\ flags' = [flags EXCEPT ![r] = fl]
  /\ meta' = [meta EXCEPT ![r] = m]
  /\ pc' = [pc EXCEPT ![r] = "build"]
  /\ UNCHANGED << now, uuids, fs, prev, mode, doc, fd, off, out, err, exit >>

\* generate_sbom.py main(): parse the flags, assemble the metadata
SbomMain(r) ==
  \E fl \in SbomFlagSet(mode) :
    Start(r, "sbom", "main", fl, SbomMetadata(SbomParseArgs(fl), now))

\* generate_vex.py main(): parse the flags, assemble the metadata
VexMain(r) ==
  \E fl \in VexFlagSet(mode) :
    Start(r, "vex", "main", fl, VexMetadata(VexParseArgs(fl)))

\* generate_minimal_sbom(output_file, metadata) called by another program
SbomCall(r) ==
  \E m \in SbomCallSet(mode) : Start(r, "sbom", "call", NoneV, m)

\* generate_vex_document(output_file, metadata) called by another program
VexCall(r) ==
  \E m \in VexCallSet(mode) : Start(r, "vex", "call", NoneV, m)

\* the dictionary literal and the loop / append that complete the document
Build(r) ==
  /\ pc[r] = "build"
  /\ doc' = [doc EXCEPT ![r] = IF kind[r] = "sbom"
                               THEN BuildSbom(meta[r], uuids, now)
                               ELSE BuildVex(meta[r], uuids, now)]
  /\ uuids' = uuids + 1
  /\ pc' = [pc EXCEPT ![r] = "open"]
  /\ UNCHANGED << now, fs, prev, mode, kind, entry, flags, meta, fd, off, out, err, exit >>

\* an exception leaves the generator; under main() the interpreter reports it
\* on stderr and exits with status 1
Raise(r, e) ==
  /\ err' = [err EXCEPT ![r] = e]
  /\ exit' = [exit EXCEPT ![r] = IF entry[r] = "main" THEN {1} ELSE {}]
  /\ pc' = [pc EXCEPT ![r] = "done"]

\* open(output_file, 'w') succeeds: the file is created or truncated
Open(r) ==
  /\ pc[r] = "open"
  /\ fs' = Truncated
  /\ fd' = [fd EXCEPT ![r] = "open"]
  /\ off' = [off EXCEPT ![r] = 0]
  /\ pc' = [pc EXCEPT ![r] = "write"]
  /\ UNCHANGED << now, uuids, prev, mode, kind, entry, flags, meta, doc, out, err, exit >>

\* open(output_file, 'w') fails (directory or file not writable)
OpenFail(r) ==
  /\ pc[r] = "open"
  /\ Raise(r, "PermissionError")
  /\ UNCHANGED << now, uuids, fs, prev, mode, kind, entry, flags, meta, doc, fd, off, out >>

\* json.dump: one more chunk reaches the file
Write(r) ==
  /\ pc[r] = "write"
  /\ off[r] < NChunks
  /\ fs' = FileOf(WriteAt(fs.data, off[r], Chunk(r, off[r] + 1)))
  /\ off' = [off EXCEPT ![r] = off[r] + 1]
  /\ UNCHANGED << now, uuids, prev, mode, pc, kind, entry, flags, meta, doc, fd, out, err, exit >>

\* variant of WriteFail: the error is swallowed and the run carries on
WriteFailSwallowed(r) ==
  /\ pc[r] = "write"
  /\ off[r] < NChunks
  /\ fd' = [fd EXCEPT ![r] = "closed"]
  /\ pc' = [pc EXCEPT ![r] = "print"]
  /\ UNCHANGED << now, uuids, fs, prev, mode, kind, entry, flags, meta, doc, off, out, err, exit >>

\* a write fails (disk full, I/O error); the with block closes the file
WriteFail(r) ==
  /\ pc[r] = "write"
  /\ off[r] < NChunks
  /\ fd' = [fd EXCEPT ![r] = "closed"]
  /\ Raise(r, "OSError")
  /\ UNCHANGED << now, uuids, fs, prev, mode, kind, entry, flags, meta, doc, off, out >>

\* the with block ends after the last chunk
Close(r) ==
  /\ pc[r] = "write"
  /\ off[r] = NChunks
  /\ fd' = [fd EXCEPT ![r] = "closed"]
  /\ pc' = [pc EXCEPT ![r] = "print"]
  /\ UNCHANGED << now, uuids, fs, prev, mode, kind, entry, flags, meta, doc, off, out, err, exit >>

GeneratedLine(k) ==
  IF k = "sbom" THEN "Generated minimal SBOM" ELSE "Generated VEX document"

\* print(f"Generated ...: {output_file}"); return the document
PrintGenerated(r) ==
  /\ pc[r] = "print"
  /\ out' = [out EXCEPT ![r] = Append(out[r], GeneratedLine(kind[r]))]
  /\ pc' = [pc EXCEPT ![r] = IF entry[r] = "main" THEN "summary" ELSE "done"]
  /\ UNCHANGED << now, uuids, fs, prev, mode, kind, entry, flags, meta, doc, fd, off, err, exit >>

SuccessLine(k) ==
  IF k = "sbom" THEN "SBOM generated successfully" ELSE "VEX document generated successfully"

CountLine(k, d) ==
  IF k = "sbom" THEN "Components: " \o ToString(Len(d.components))
  ELSE "Statements: " \o ToString(Len(d.statements))

\* main() prints the summary and returns: exit status 0
PrintSummary(r) ==
  /\ pc[r] = "summary"
  /\ out' = [out EXCEPT ![r] = out[r] \o << SuccessLine(kind[r]), CountLine(kind[r], doc[r]) >>]
  /\ exit' = [exit EXCEPT ![r] = {0}]
  /\ pc' = [pc EXCEPT ![r] = "done"]
  /\ UNCHANGED << now, uuids, fs, prev, mode, kind, entry, flags, meta, doc, fd, off, err >>

\* the process is killed (or the machine stops) between two steps
Crash(r) ==
  /\ pc[r] \notin {"init", "done", "crashed"}
  /\ pc' = [pc EXCEPT ![r] = "crashed"]
  /\ UNCHANGED << now, uuids, fs, prev, mode, kind, entry, flags, meta, doc, fd, off, out, err, exit >>

\* a second passes
Tick ==
  /\ now < MaxTime
  /\ now' = now + 1
  /\ UNCHANGED << uuids, fs, prev, mode, pc, kind, entry, flags, meta, doc, fd, off, out, err, exit >>

Next ==
  \/ Tick
  \/ \E r \in Runs : SbomMain(r)
  \/ \E r \in Runs : VexMain(r)
  \/ \E r \in Runs : SbomCall(r)
  \/ \E r \in Runs : VexCall(r)
  \/ \E r \in Runs : Build(r)
  \/ \E r \in Runs : Open(r)
  \/ \E r \in Runs : OpenFail(r)
  \/ \E r \in Runs : Write(r)
  \/ \E r \in Runs : WriteFail(r)
  \/ \E r \in Runs : Close(r)
  \/ \E r \in Runs : PrintGenerated(r)
  \/ \E r \in Runs : PrintSummary(r)
  \/ \E r \in Runs : Crash(r)

Init == InitWith("concurrent")

\* runs that may overlap on the same output path
Spec == Init /\ [][Next]_vars

InitSeq == InitWith("consecutive")

\* the same command or call made twice, one run after the other
SpecSeq == InitSeq /\ [][Next]_vars

\* ------------------------------------------------------------ vocabulary of the properties
\* run r wrote every chunk of its document and closed the file
Written(r) == fd[r] = "closed" /\ off[r] = NChunks

\* no other run has started
Alone(r) == \A q \in Runs \ {r} : pc[q] = "init"

Started(r) == pc[r] # "init"

IsMain(r, k) == entry[r] = "main" /\ kind[r] = k

Built(r, k) == kind[r] = k /\ doc[r] # NoneV

SuccessPrinted(r) == \E i \in 1..Len(out[r]) : out[r][i] = SuccessLine(kind[r])

HasProperty(d, n, v) ==
  \E i \in 1..Len(d.metadata.properties) :
    d.metadata.properties[i] = [name |-> n, value |-> v]

\* ------------------------------------------------------------ C1
\* C1: at every moment of a run, crashes and failed writes included, the
\* output path holds what it held before the run or that run's complete
\* serialized document, never an empty or partial one.
PathNeverPartial ==
  \A r \in Runs : (Started(r) /\ Alone(r)) => (fs = prev \/ fs = FileOf(Serialized(r)))

\* ------------------------------------------------------------ C2
\* C2: when two runs write the same path, a reader sees at every moment the
\* old file or one run's whole document, and once both have finished
\* writing the file is exactly one run's whole document.
ConcurrentReaderSeesWhole ==
  (\A r \in Runs : Started(r)) =>
    /\ fs = prev \/ \E r \in Runs : fs = FileOf(Serialized(r))
    /\ (\A r \in Runs : Written(r)) => \E r \in Runs : fs = FileOf(Serialized(r))

\* ------------------------------------------------------------ C3
InvalidLevel(r) ==
  /\ IsMain(r, "sbom")
  /\ flags[r].slsa_level # NoneV
  /\ flags[r].slsa_level.s \notin {"0", "1", "2", "3"}

\* C3: a generate-sbom run given a --slsa-level outside {0,1,2,3} never opens
\* the output path and, when it ends, has a non-zero exit code.
InvalidLevelRejected ==
  \A r \in Runs : InvalidLevel(r) =>
    /\ fd[r] = "none"
    /\ pc[r] = "done" => exit[r] = {1}

\* ------------------------------------------------------------ C4
\* C4: when the output path cannot be written (open fails, or a write fails
\* part-way) the run exits non-zero and the path is as it was before the run:
\* no new file, no partial file, the previous content kept.
FailedWriteLeavesPathIntact ==
  \A r \in Runs : (Alone(r) /\ err[r] # "") =>
    /\ entry[r] = "main" => exit[r] = {1}
    /\ fs = prev

\* ------------------------------------------------------------ C5
AllOmitted(r) ==
  \/ IsMain(r, "sbom") /\ flags[r] = SbomFlags(NoneV, NoneV, NoneV)
  \/ IsMain(r, "vex") /\ flags[r] = VexFlags(NoneV, NoneV, NoneV)

\* a build id of the form "jenkins-<seconds>" for a clock value up to now
TimestampBuildId(d) ==
  \E t \in 0..now : HasProperty(d, "slsa:build_id", "jenkins-" \o ToString(t))

OneProduct(d, c, v) ==
  /\ Len(d.statements) = 1
  /\ d.statements[1].products = << [component |-> StrV(c), version |-> StrV(v)] >>

\* C5 as stated: with every optional flag omitted the SBOM has build_type
\* "generic", slsa_level "3" and a timestamp build id, and the VEX document
\* has author "Attestation Pipeline" and one product unknown / 1.0.0.
DocumentedDefaults ==
  \A r \in Runs : (AllOmitted(r) /\ Written(r)) =>
    IF kind[r] = "sbom"
    THEN /\ HasProperty(doc[r], "slsa:build_type", "generic")
         /\ HasProperty(doc[r], "slsa:slsa_level", "3")
         /\ TimestampBuildId(doc[r])
    ELSE /\ doc[r].author = StrV("Attestation Pipeline")
         /\ OneProduct(doc[r], "unknown", "1.0.0")

\* C5 amended: with every optional flag omitted the SBOM has build_type
\* "jenkins-kubernetes", slsa_level "3" and build id "jenkins-<seconds>", and
\* the VEX document has author "Jenkins SLSA Pipeline" and one product
\* jenkins-build / 1.0.0.
CodeDefaults ==
  \A r \in Runs : (AllOmitted(r) /\ Written(r)) =>
    IF kind[r] = "sbom"
    THEN /\ HasProperty(doc[r], "slsa:build_type", "jenkins-kubernetes")
         /\ HasProperty(doc[r], "slsa:slsa_level", "3")
         /\ TimestampBuildId(doc[r])
         /\ Len(doc[r].metadata.properties) = 3
    ELSE /\ doc[r].author = StrV("Jenkins SLSA Pipeline")
         /\ OneProduct(doc[r], "jenkins-build", "1.0.0")

\* generate-vex has been run twice with no optional flag and has written
VexDefaultsWritten ==
  /\ \A r \in Runs : AllOmitted(r) /\ Written(r)
  /\ kind[1] = "vex"

\* ------------------------------------------------------------ C6
\* the document without the per-generation fields
Shape(k, d) ==
  IF k = "sbom"
  THEN [d EXCEPT !.serialNumber = "", !.metadata.timestamp = ""]
  ELSE [d EXCEPT !.id = "", !.timestamp = ""]

\* the document also without the value of a generated build id
ShapeLessBuildId(k, d) ==
  IF k = "sbom"
  THEN [Shape(k, d) EXCEPT !.metadata.properties =
          [i \in 1..Len(@) |-> IF @[i].name = "slsa:build_id"
                               THEN [@[i] EXCEPT !.value = ""] ELSE @[i]]]
  ELSE Shape(k, d)

BuildIdGiven(r) == IsMain(r, "sbom") => Truthy(flags[r].build_id)

\* runs p and q are two generations with the same command-line flags
SameCommand(p, q) ==
  /\ p # q
  /\ entry[p] = "main" /\ entry[q] = "main"
  /\ kind[p] = kind[q]
  /\ flags[p] = flags[q]
  /\ doc[p] # NoneV /\ doc[q] # NoneV

\* C6 as stated: two generations with the same flags, --build-id omitted or
\* not, differ only in serialNumber / @id and the timestamp.
SameFlagsSameShape ==
  \A p, q \in Runs : SameCommand(p, q) => Shape(kind[p], doc[p]) = Shape(kind[q], doc[q])

\* C6 amended: two generations with the same flags differ only in
\* serialNumber / @id and the timestamp when --build-id is given and
\* non-empty; when it is omitted or empty they may differ in the value of
\* the slsa:build_id property as well, and in nothing else.
SameFlagsSameShapeButBuildId ==
  \A p, q \in Runs : SameCommand(p, q) =>
    /\ ShapeLessBuildId(kind[p], doc[p]) = ShapeLessBuildId(kind[q], doc[q])
    /\ BuildIdGiven(p) => Shape(kind[p], doc[p]) = Shape(kind[q], doc[q])

\* the same command ran twice, a second apart, with and without a build id
SameFlagsTwiceWritten ==
  /\ mode = "consecutive"
  /\ SameCommand(1, 2)
  /\ kind[1] = "sbom"
  /\ Written(1) /\ Written(2)
  /\ doc[1].serialNumber # doc[2].serialNumber
  /\ doc[1].metadata.timestamp # doc[2].metadata.timestamp
  /\ Truthy(flags[1].build_id)

\* ------------------------------------------------------------ C7
\* a metadata value with nothing in it
EmptyValue(v) == v = NoneV \/ v = StrV("")

RECURSIVE NonEmptyItems(_)
NonEmptyItems(d) ==
  IF d = << >> THEN << >>
  ELSE IF EmptyValue(Head(d).value) THEN NonEmptyItems(Tail(d))
  ELSE << Head(d) >> \o NonEmptyItems(Tail(d))

\* properties p are exactly the items d, in order, prefixed and stringified
PropertiesMatch(p, d) ==
  /\ Len(p) = Len(d)
  /\ \A i \in 1..Len(d) :
       p[i].name = "slsa:" \o d[i].key /\ p[i].value = Str(d[i].value)

\* a run given a non-empty --build-id B and a --slsa-level L writes both
FlagsInProperties(r) ==
  (IsMain(r, "sbom") /\ Truthy(flags[r].build_id) /\ flags[r].slsa_level # NoneV) =>
     /\ HasProperty(doc[r], "slsa:build_id", flags[r].build_id.s)
     /\ HasProperty(doc[r], "slsa:slsa_level", flags[r].slsa_level.s)

\* C7 as stated: the SBOM's properties are one entry per metadata field with
\* a non-empty value, none for a field with an empty value, in field order.
PropertyPerNonEmptyField ==
  \A r \in Runs : Built(r, "sbom") =>
    /\ PropertiesMatch(doc[r].metadata.properties, NonEmptyItems(MetaOrEmpty(meta[r])))
    /\ FlagsInProperties(r)

\* C7 amended: the SBOM's properties are one entry {"slsa:" + key,
\* str(value)} per metadata field, empty values included, in field order; a
\* run with a non-empty --build-id B and --slsa-level L writes properties
\* including {slsa:build_id, B} and {slsa:slsa_level, L}.
PropertyPerField ==
  \A r \in Runs : Built(r, "sbom") =>
    /\ PropertiesMatch(doc[r].metadata.properties, MetaOrEmpty(meta[r]))
    /\ FlagsInProperties(r)

\* a written SBOM whose metadata had an empty value and a non-string value
PropertyPerFieldWritten ==
  \E r \in Runs :
    /\ Built(r, "sbom") /\ Written(r)
    /\ meta[r] # NoneV
    /\ \E i, j \in 1..Len(meta[r].items) :
         meta[r].items[i].value = NoneV /\ meta[r].items[j].value.t = "int"

\* ------------------------------------------------------------ C8
\* C8: every VEX document has exactly one statement, and a statement with
\* status "not_affected" has a non-empty justification.
NotAffectedJustified ==
  \A r \in Runs : Built(r, "vex") =>
    /\ Len(doc[r].statements) = 1
    /\ \A i \in 1..Len(doc[r].statements) :
         doc[r].statements[i].status = "not_affected" =>
           doc[r].statements[i].justification # ""

\* a VEX document generated from no metadata at all has been written
VexWithoutMetadataWritten ==
  \E r \in Runs :
    /\ Built(r, "vex") /\ Written(r)
    /\ entry[r] = "call" /\ meta[r] = NoneV
    /\ doc[r].statements[1].status = "not_affected"

\* ------------------------------------------------------------ C9
ComponentAndVersionGiven(r) ==
  /\ IsMain(r, "vex")
  /\ flags[r].component # NoneV
  /\ flags[r].version # NoneV
  /\ doc[r] # NoneV

ProductIsAsGiven(r) ==
  /\ doc[r].statements[1].products[1] =
       [component |-> flags[r].component, version |-> flags[r].version]
  /\ doc[r].statements[1].status = "not_affected"

\* C9 as stated: for every --component C and --version V the first product
\* of the first statement is {C, V} and the status is "not_affected".
ProductFromFlags ==
  \A r \in Runs : ComponentAndVersionGiven(r) => ProductIsAsGiven(r)

\* C9 amended: for every non-empty --component C and every --version V the
\* first product of the first statement is {C, V} and the status is
\* "not_affected"; an empty C is replaced by "jenkins-build".
ProductFromNonEmptyFlags ==
  \A r \in Runs : ComponentAndVersionGiven(r) =>
    IF Truthy(flags[r].component)
    THEN ProductIsAsGiven(r)
    ELSE doc[r].statements[1].products[1] =
           [component |-> StrV("jenkins-build"), version |-> flags[r].version]

\* generate-vex --component libfoo --version 2.1.0 has written its document
LibfooWritten ==
  \E r \in Runs :
    /\ ComponentAndVersionGiven(r) /\ Written(r)
    /\ flags[r].component = StrV("libfoo")
    /\ flags[r].version = StrV("2.1.0")

\* ------------------------------------------------------------ C10
\* C10: a command prints its success summary only after it has written its
\* whole document and closed the file (which, with no other run about, is
\* then the content of the output path); it exits 0 exactly when the write
\* completed; a run whose write failed prints no summary and exits non-zero.
SummaryOnlyAfterWrite ==
  \A r \in Runs : entry[r] = "main" =>
    /\ SuccessPrinted(r) =>
         /\ Written(r)
         /\ out[r] = << GeneratedLine(kind[r]), SuccessLine(kind[r]),
                        CountLine(kind[r], doc[r]) >>
         /\ Alone(r) => fs = FileOf(Serialized(r))
    /\ pc[r] = "done" => (exit[r] = {0} <=> Written(r))
    /\ pc[r] = "done" => (exit[r] = {0} <=> SuccessPrinted(r))
    /\ err[r] # "" => (~SuccessPrinted(r) /\ exit[r] = {1})

\* one command has succeeded and the other has failed in its write
OneSucceededOneFailed ==
  \E p, q \in Runs :
    /\ entry[p] = "main" /\ pc[p] = "done" /\ SuccessPrinted(p) /\ exit[p] = {0}
    /\ entry[q] = "main" /\ pc[q] = "done" /\ err[q] = "OSError" /\ off[q] > 0

====
